---------------------------- MODULE Spec2Model ----------------------------
(***************************************************************************)
(* Sonar Sentry: a browser sonar that emits a chirp, listens to the echo   *)
(* and classifies the Doppler shift of the echo's spectral peak against a  *)
(* calibrated baseline.                                                    *)
(*                                                                         *)
(* The repository holds two revisions of the same program: src/app.js and  *)
(* src/unnamed/part_000.  Both are modelled; the variable `revision' says  *)
(* which one is running.  It is chosen in Init and never changes.          *)
(*                                                                         *)
(* The JavaScript event loop runs one task to completion at a time, so     *)
(* every action below is one task: a click, a promise continuation, a      *)
(* timeout, an interval tick or an animation frame, together with every    *)
(* function it calls synchronously and every microtask that follows it.    *)
(*                                                                         *)
(* Numbers.  Frequencies are integers (Hz) because the bin width of the    *)
(* modelled audio context is an integer; a mean of frequencies is kept as  *)
(* an exact fraction in lowest terms.  -Infinity is the integer            *)
(* NEG_INFINITY, below every magnitude a frame can hold.                    *)
(***************************************************************************)
EXTENDS Integers, Sequences, FiniteSets, Bags, TLC

\* ------------------------------------------------------------ bounds ----

\* Number of startSonar() calls that may be in flight at the same time.
MaxCalls == 2

\* Number of interval timers of one kind (ping, analysis) alive at once.
MaxTimers == 2

\* Number of animation-frame requests pending at once.
MaxFrames == 2

\* Samples given to bufferToWave are multiples of 1 / SampleSteps.
SampleSteps == 64

\* --------------------------------------------------------- revisions ----

REV_APP == "app.js"
REV_OLD == "part_000"
Revisions == {REV_APP, REV_OLD}

\* --------------------------------------------------- tuning constants ----

MOTION_THRESHOLD_HZ(rev) == IF rev = REV_APP THEN 10 ELSE 25

PEAK_MAGNITUDE_THRESHOLD_DB(rev) == IF rev = REV_APP THEN -55 ELSE -60

CHIRP_START_HZ(rev) == IF rev = REV_APP THEN 2000 ELSE 15000

CHIRP_END_HZ(rev) == IF rev = REV_APP THEN 5000 ELSE 18000

\* const calibrationCycles inside calibrate()
calibrationCycles(rev) == IF rev = REV_APP THEN 10 ELSE 5

\* validReadings.length >= 3 (app.js only)
MIN_VALID_READINGS == 3

\* analyser.fftSize
fftSize == 8192

\* analyser.frequencyBinCount: half the FFT size
frequencyBinCount == fftSize \div 2

\* audioContext.sampleRate: fixed by the audio device.  The modelled device
\* runs at 40960 Hz, which makes the bin width an integer.
sampleRate == 40960

\* let peakMagnitude = -Infinity
NEG_INFINITY == -1000000

\* ------------------------------------------------------------- numbers ----

Abs(x) == IF x < 0 THEN -x ELSE x

RECURSIVE Gcd(_, _)
Gcd(a, b) == IF b = 0 THEN a ELSE Gcd(b, a % b)

\* The number num/den (den > 0), in lowest terms.
Frac(num, den) ==
    LET g == Gcd(Abs(num), den)
    IN  [num |-> num \div g, den |-> den \div g]

\* let baselineFrequency = 0
ZERO == [num |-> 0, den |-> 1]

\* x - q for an integer x and a fraction q
MinusFrac(x, q) == Frac(x * q.den - q.num, q.den)

\* q > k and q < k for a fraction q and an integer k
FracGt(q, k) == q.num > k * q.den
FracLt(q, k) == q.num < k * q.den

\* Math.abs(q)
FracAbs(q) == [num |-> Abs(q.num), den |-> q.den]

\* Math.floor(a / b) and Math.ceil(a / b) for a >= 0, b > 0
Floor(a, b) == a \div b
Ceil(a, b) == (a + b - 1) \div b

RECURSIVE SumSeq(_)
\* validReadings.reduce((a, b) => a + b, 0)
SumSeq(s) == IF s = << >> THEN 0 ELSE Head(s) + SumSeq(Tail(s))

\* ------------------------------------------------------- peak finding ----

\* const binWidth = audioContext.sampleRate / analyser.fftSize
binWidth == sampleRate \div fftSize

\* One step of the scan loop: if (data[i] > peakMagnitude) { ... }.
\* data[i] is undefined past the end of the array, and undefined > x is false.
PeakStep(data, acc, i) ==
    IF i \in DOMAIN data /\ data[i] > acc.peakMagnitude
    THEN [peakMagnitude |-> data[i], peakIndex |-> i]
    ELSE acc

RECURSIVE PeakScan(_, _, _, _)
\* for (let i = lo; i <= hi; i++) PeakStep, starting from acc.  The range is
\* scanned in ascending order, first half then second half, and the result of
\* the first half is computed before the second half starts (the test
\* first.peakIndex >= -1 is always true and only fixes that order), so that
\* the depth of the evaluation is logarithmic in the number of bins.
PeakScan(data, lo, hi, acc) ==
    IF lo > hi THEN acc
    ELSE IF lo = hi THEN PeakStep(data, acc, lo)
    ELSE LET mid == (lo + hi) \div 2
             first == PeakScan(data, lo, mid, acc)
         IN  IF first.peakIndex >= -1
             THEN PeakScan(data, mid + 1, hi, first)
             ELSE first

\* findPeakFrequency(data) with audioContext.sampleRate = rate and
\* analyser.fftSize = size.  The bin width rate / size is kept exact, so
\* CHIRP_START_HZ / binWidth is CHIRP_START_HZ * size / rate, and the frequency
\* peakIndex * binWidth is a fraction.
findPeakAt(data, rate, size, rev) ==
    LET startIndex == Floor(CHIRP_START_HZ(rev) * size, rate)
        endIndex   == Ceil(CHIRP_END_HZ(rev) * size, rate)
        peak == PeakScan(data, startIndex, endIndex,
                         [peakMagnitude |-> NEG_INFINITY, peakIndex |-> -1])
    IN  [frequency |-> Frac(peak.peakIndex * rate, size),
         magnitude |-> peak.peakMagnitude]

\* findPeakFrequency(data) on the modelled device, whose bin width is an
\* integer: the frequency is an integer.
findPeakFrequency(data, rev) ==
    LET peak == findPeakAt(data, sampleRate, fftSize, rev)
    IN  [frequency |-> peak.frequency.num \div peak.frequency.den,
         magnitude |-> peak.magnitude]

\* -------------------------------------------------------------- frames ----

\* A frame of analyser.getFloatFrequencyData: one magnitude (dB) per bin.
\* The microphone hears silence (every bin -Infinity), or a noise floor with
\* an echo of magnitude m at bin p.  Every audible frame also holds a bin
\* below the chirp band that is louder than the echo (mains hum).
SilentFrame == [i \in 0 .. frequencyBinCount - 1 |-> NEG_INFINITY]

EchoFrame(p, m) ==
    LET humBin == 10
        humDb == -10
        floorDb == -100
    IN  [i \in 0 .. frequencyBinCount - 1 |->
            IF i = p THEN m ELSE IF i = humBin THEN humDb ELSE floorDb]

\* The frequency of the echo of a still reflector, per revision.
ECHO_HZ(rev) == IF rev = REV_APP THEN 3000 ELSE 17000

EchoBin(rev) == ECHO_HZ(rev) \div binWidth

\* The echo as heard at a shift of d Hz (a multiple of the bin width).
ShiftedFrame(rev, d, m) == EchoFrame(EchoBin(rev) + d \div binWidth, m)

\* Frames heard during a calibration, by room: a room with a still
\* reflector returns the echo, an empty room returns silence.
ROOM_ECHO == "echo"
ROOM_SILENT == "silent"
Rooms == {ROOM_ECHO, ROOM_SILENT}

CalibrationFrames(rev, r) ==
    IF r = ROOM_ECHO THEN {EchoFrame(EchoBin(rev), -40)} ELSE {SilentFrame}

\* Frames heard by the analysis ticks of a session: the echo unshifted and
\* shifted beyond the motion threshold in either direction.
SessionFrames(rev) ==
    LET T == MOTION_THRESHOLD_HZ(rev)
    IN  {ShiftedFrame(rev, d, -40) : d \in {0, T + binWidth, -(T + binWidth)}}

\* A wider choice of frames for the signal path.  Calibration: the still echo,
\* the echo two bins higher, an echo whose magnitude is exactly the magnitude
\* threshold, a weak echo, and silence.
SignalCalibrationFrames(rev) ==
    LET M == PEAK_MAGNITUDE_THRESHOLD_DB(rev)
    IN  {ShiftedFrame(rev, 0, -40), ShiftedFrame(rev, 2 * binWidth, -40),
         ShiftedFrame(rev, binWidth, M), ShiftedFrame(rev, -binWidth, M - 15),
         SilentFrame}

\* Analysis: the echo unshifted, shifted by exactly the motion threshold,
\* shifted beyond it, a shifted echo whose magnitude is exactly the magnitude
\* threshold, a weak shifted echo, and silence.
SignalAnalysisFrames(rev) ==
    LET T == MOTION_THRESHOLD_HZ(rev)
        M == PEAK_MAGNITUDE_THRESHOLD_DB(rev)
    IN  {ShiftedFrame(rev, d, -40) : d \in {0, T, -T, T + binWidth, -(T + binWidth)}}
        \cup {ShiftedFrame(rev, T + binWidth, M), ShiftedFrame(rev, -(T + binWidth), M - 15),
              SilentFrame}

\* The peaks findPeakFrequency reports for a set of frames.
PeakSet(frameSet, rev) == {findPeakFrequency(f, rev) : f \in frameSet}

\* The peaks of the frames above, per revision.  (The tables are written with
\* :> and @@ so that they are computed once.)
EchoPeaks ==
    (REV_APP :> PeakSet(CalibrationFrames(REV_APP, ROOM_ECHO), REV_APP))
    @@ (REV_OLD :> PeakSet(CalibrationFrames(REV_OLD, ROOM_ECHO), REV_OLD))

SilentPeaks ==
    (REV_APP :> PeakSet(CalibrationFrames(REV_APP, ROOM_SILENT), REV_APP))
    @@ (REV_OLD :> PeakSet(CalibrationFrames(REV_OLD, ROOM_SILENT), REV_OLD))

CalibrationPeaks(rev, r) == IF r = ROOM_ECHO THEN EchoPeaks[rev] ELSE SilentPeaks[rev]

SessionPeaks ==
    (REV_APP :> PeakSet(SessionFrames(REV_APP), REV_APP))
    @@ (REV_OLD :> PeakSet(SessionFrames(REV_OLD), REV_OLD))

SignalCalibrationPeaks ==
    (REV_APP :> PeakSet(SignalCalibrationFrames(REV_APP), REV_APP))
    @@ (REV_OLD :> PeakSet(SignalCalibrationFrames(REV_OLD), REV_OLD))

\* The readings the signal path may take next in a calibration that has the
\* valid readings `validReadings' so far: the reflector moves at most once
\* during a calibration, so after a reading of the higher echo the still echo
\* (the lowest valid frequency) is not heard again.
DriftPeaks(validReadings, rev) ==
    IF validReadings # << >> /\ validReadings[Len(validReadings)] # ECHO_HZ(rev)
    THEN {p \in SignalCalibrationPeaks[rev] : p.frequency # ECHO_HZ(rev)}
    ELSE SignalCalibrationPeaks[rev]

SignalAnalysisPeaks ==
    (REV_APP :> PeakSet(SignalAnalysisFrames(REV_APP), REV_APP))
    @@ (REV_OLD :> PeakSet(SignalAnalysisFrames(REV_OLD), REV_OLD))

\* --------------------------------------------------------------- state ----

VARIABLES
    revision,           \* which revision of the program is running
    room,               \* environment: what the microphone hears during calibration
    audioContext,       \* "none" (not created yet), "running" or "suspended"
    isSonarActive,      \* let isSonarActive
    baselineFrequency,  \* let baselineFrequency (a fraction; ZERO is 0)
    pingInterval,       \* let pingInterval: a timer id, 0 while undefined
    analysisInterval,   \* let analysisInterval (app.js): a timer id, 0 while undefined
    visualizerFrame,    \* let visualizerFrame (analysisFrame in part_000): a frame id
    pingTimers,         \* ids of the live setInterval(playChirp) timers
    analysisTimers,     \* ids of the live setInterval(runDopplerAnalysis) timers
    frames,             \* ids of the pending requestAnimationFrame callbacks
    calls,              \* the startSonar() calls in flight: a bag of their states
    statusText,         \* statusDisplay.textContent without the "Status: " prefix
    buttonActive,       \* sonarButton shows 'Stop Sonar' (class 'active')
    ownBaseline,        \* history: baselineFrequency was written by the calibration
                        \* run of the session that is running now
    out,                \* what the task that ran last did
    probe               \* a pure function under test: its input, then its result

vars == <<revision, room, audioContext, isSonarActive, baselineFrequency, pingInterval,
          analysisInterval, visualizerFrame, pingTimers, analysisTimers, frames,
          calls, statusText, buttonActive, ownBaseline, out, probe>>

TimerIds == 1 .. MaxTimers
FrameIds == 1 .. MaxFrames

\* The state of a startSonar() call that has just been made.  pc is the await
\* the call is suspended at: "resume", "getUserMedia", "timeout" (the 500 ms
\* timeout) or "settle" (a settle delay of calibrate); i, validReadings and
\* totalFrequency are the locals of its calibrate(); own (history) says that
\* this call started the session that is running now.
NewCall == [pc |-> "getUserMedia", i |-> 0, validReadings |-> << >>,
            totalFrequency |-> 0, own |-> FALSE]

\* The peak slot of `out' in a task that read no frame.
NoPeak == [frequency |-> 0, magnitude |-> 0]

\* What a task did: the number of chirps it played (playChirp calls), the
\* alert it raised ("" for none), whether it classified a peak, and the peak
\* it read.
Did(chirps, alert, classified, peak) ==
    [chirps |-> chirps, alert |-> alert, classified |-> classified, peak |-> peak]

\* No function is under test.
NoProbe == [fn |-> "none"]

STATUS_IDLE == "Idle"
STATUS_CALIBRATING == "Calibrating..."
STATUS_DO_NOT_MOVE == "Calibrating... Do not move."
STATUS_ACTIVE == "Active"
STATUS_APPROACHING == "Motion Detected - Approaching!"
STATUS_RECEDING == "Motion Detected - Receding!"

ALERT_MICROPHONE ==
    "Microphone access denied. Please allow microphone access."
ALERT_CALIBRATION ==
    "Calibration failed. No clear echo detected. Try a different room or get closer to a wall."

\* The smallest id of `ids' that is not in `live' (setInterval and
\* requestAnimationFrame return an id no live timer or frame has).
NewId(ids, live) == CHOOSE n \in ids \ live : \A m \in ids \ live : n <= m

\* The page as loaded, before any click.
PageLoaded ==
    /\ revision \in Revisions
    /\ room \in Rooms
    /\ audioContext = "none"
    /\ isSonarActive = FALSE
    /\ baselineFrequency = ZERO
    /\ pingInterval = 0
    /\ analysisInterval = 0
    /\ visualizerFrame = 0
    /\ pingTimers = {}
    /\ analysisTimers = {}
    /\ frames = {}
    /\ calls = EmptyBag
    /\ statusText = STATUS_IDLE
    /\ buttonActive = FALSE
    /\ ownBaseline = FALSE
    /\ out = Did(0, "", FALSE, NoPeak)

Init ==
    /\ PageLoaded
    /\ probe = NoProbe

\* ------------------------------------------------------------ functions ----

\* updateUI(isActive, statusText)
updateUI(isActive, text) ==
    /\ statusText' = text
    /\ buttonActive' = isActive

\* statusDisplay.className, as updateUI derives it
StatusClass ==
    IF buttonActive
    THEN IF statusText \in {STATUS_APPROACHING, STATUS_RECEDING}
         THEN "status-alert" ELSE "status-active"
    ELSE "status-idle"

\* stopSonar()
stopSonar ==
    /\ isSonarActive' = FALSE
    /\ pingTimers' = pingTimers \ {pingInterval}
    /\ analysisTimers' = IF revision = REV_APP
                         THEN analysisTimers \ {analysisInterval}
                         ELSE analysisTimers
    /\ frames' = frames \ {visualizerFrame}
    /\ audioContext' = IF revision = REV_APP /\ audioContext # "none"
                       THEN "suspended" ELSE audioContext
    /\ updateUI(FALSE, STATUS_IDLE)
    /\ UNCHANGED <<pingInterval, analysisInterval, visualizerFrame>>

\* Verdict with the motion test made inclusive: a shift of exactly the motion
\* threshold counts as motion.
VerdictInclusive(peak, baseline, rev) ==
    LET dopplerShift == MinusFrac(peak.frequency, baseline)
    IN  IF /\ peak.magnitude > PEAK_MAGNITUDE_THRESHOLD_DB(rev)
           /\ ~FracLt(FracAbs(dopplerShift), MOTION_THRESHOLD_HZ(rev))
        THEN IF FracGt(dopplerShift, 0) THEN STATUS_APPROACHING ELSE STATUS_RECEDING
        ELSE STATUS_ACTIVE

\* The verdict of one analysis tick, as the status text it shows:
\* the body of runDopplerAnalysis / analyseAudio after the peak is found.
Verdict(peak, baseline, rev) ==
    LET dopplerShift == MinusFrac(peak.frequency, baseline)
    IN  IF /\ peak.magnitude > PEAK_MAGNITUDE_THRESHOLD_DB(rev)
           /\ FracGt(FracAbs(dopplerShift), MOTION_THRESHOLD_HZ(rev))
        THEN IF FracGt(dopplerShift, 0) THEN STATUS_APPROACHING ELSE STATUS_RECEDING
        ELSE STATUS_ACTIVE

\* if (!isSonarActive || !baselineFrequency) return;   (app.js)
\* if (baselineFrequency > 0) { ... }                     (part_000)
Calibrated(baseline, rev) ==
    IF rev = REV_APP THEN baseline.num # 0 ELSE baseline.num > 0

\* requestAnimationFrame(cb): a new pending frame, remembered in visualizerFrame.
\* `pending' is the set of frames still pending when the request is made.
RequestFrame(pending) ==
    LET id == NewId(FrameIds, pending)
    IN  /\ frames' = pending \cup {id}
        /\ visualizerFrame' = id

\* The calls in flight.
InFlight == BagToSet(calls)

\* The bag of calls with call c gone, and with call c now in state d.
Without(c) == calls (-) SetToBag({c})
With(c, d) == Without(c) (+) SetToBag({d})

\* History: the session that was running has ended (or another began), so no
\* call of the bag owns the running session any more.
Disown(bag) ==
    LET disowned(c) == [c EXCEPT !.own = FALSE]
    IN  [d \in {disowned(c) : c \in BagToSet(bag)} |->
            CopiesIn(d, bag) + CopiesIn([d EXCEPT !.own = TRUE], bag)]


\* -------------------------------------------------------------- actions ----

\* startSonar() up to its first await; at most `limit' calls are in flight.
startSonar(limit) ==
    /\ BagCardinality(calls) < limit
    /\ audioContext' = IF audioContext = "none" THEN "running" ELSE audioContext
    /\ calls' = calls (+) SetToBag({[NewCall EXCEPT !.pc = IF audioContext = "suspended"
                                                          THEN "resume"
                                                          ELSE "getUserMedia"]})
    /\ out' = Did(0, "", FALSE, NoPeak)
    /\ UNCHANGED <<probe, revision, room, isSonarActive, baselineFrequency, pingInterval,
                   analysisInterval, visualizerFrame, pingTimers, analysisTimers,
                   frames, statusText, buttonActive, ownBaseline>>

\* sonarButton's click listener.
click(limit) ==
    \/ /\ ~isSonarActive
       /\ startSonar(limit)
    \/ /\ isSonarActive
       /\ stopSonar
       /\ calls' = Disown(calls)
       /\ ownBaseline' = FALSE
       /\ out' = Did(0, "", FALSE, NoPeak)
       /\ UNCHANGED <<probe, revision, room, baselineFrequency>>

\* await audioContext.resume() returns.
resumeResolves(c) ==
    /\ c.pc = "resume"
    /\ audioContext' = "running"
    /\ calls' = With(c, [c EXCEPT !.pc = "getUserMedia"])
    /\ out' = Did(0, "", FALSE, NoPeak)
    /\ UNCHANGED <<probe, revision, room, isSonarActive, baselineFrequency, pingInterval,
                   analysisInterval, visualizerFrame, pingTimers, analysisTimers,
                   frames, statusText, buttonActive, ownBaseline>>

\* await getUserMedia(...) returns a stream: the rest of the try block.
\* app.js calls visualize(), part_000 calls analyseAudio(); both run with
\* isSonarActive already true, so both request an animation frame.
getUserMediaResolves(c, peaks) ==
    /\ c.pc = "getUserMedia"
    /\ FrameIds \ frames # {}
    /\ isSonarActive' = TRUE
    /\ calls' = Disown(Without(c)) (+) SetToBag({[c EXCEPT !.pc = "timeout", !.own = TRUE]})
    /\ ownBaseline' = FALSE
    /\ RequestFrame(frames)
    /\ IF revision = REV_OLD /\ Calibrated(baselineFrequency, revision)
       THEN \E peak \in peaks :
               /\ updateUI(TRUE, Verdict(peak, baselineFrequency, revision))
               /\ out' = Did(0, "", TRUE, peak)
       ELSE /\ updateUI(TRUE, STATUS_CALIBRATING)
            /\ out' = Did(0, "", FALSE, NoPeak)
    /\ UNCHANGED <<probe, revision, room, audioContext, baselineFrequency, pingInterval,
                   analysisInterval, pingTimers, analysisTimers>>

\* A catch block that reports the failure and asks for the microphone again.
getUserMediaRetries(c) ==
    /\ c.pc = "getUserMedia"
    /\ calls' = calls
    /\ out' = Did(0, ALERT_MICROPHONE, FALSE, NoPeak)
    /\ UNCHANGED <<probe, revision, room, audioContext, isSonarActive, baselineFrequency,
                   pingInterval, analysisInterval, visualizerFrame, pingTimers,
                   analysisTimers, frames, statusText, buttonActive, ownBaseline>>

\* await getUserMedia(...) throws: the catch block.
getUserMediaRejects(c) ==
    /\ c.pc = "getUserMedia"
    /\ calls' = Without(c)
    /\ out' = Did(0, ALERT_MICROPHONE, FALSE, NoPeak)
    /\ UNCHANGED <<probe, revision, room, audioContext, isSonarActive, baselineFrequency,
                   pingInterval, analysisInterval, visualizerFrame, pingTimers,
                   analysisTimers, frames, statusText, buttonActive, ownBaseline>>

\* The 500 ms timeout of startSonar fires: calibrate() runs up to its first
\* await (the first chirp is played, the first settle delay is armed).
timeoutFires(c) ==
    /\ c.pc = "timeout"
    /\ calls' = With(c, [c EXCEPT !.pc = "settle", !.i = 0, !.validReadings = << >>,
                                  !.totalFrequency = 0])
    /\ IF revision = REV_APP
       THEN updateUI(TRUE, STATUS_DO_NOT_MOVE)
       ELSE UNCHANGED <<statusText, buttonActive>>
    /\ out' = Did(1, "", FALSE, NoPeak)
    /\ UNCHANGED <<probe, revision, room, audioContext, isSonarActive, baselineFrequency,
                   pingInterval, analysisInterval, visualizerFrame, pingTimers,
                   analysisTimers, frames, ownBaseline>>

\* if (peak.magnitude > PEAK_MAGNITUDE_THRESHOLD_DB) validReadings.push(peak.frequency)
\* (app.js).  calibrate() of part_000 keeps no such list and never tests the
\* magnitude: there validReadings is history, the readings a magnitude test
\* would have kept, and nothing in the actions of part_000 reads it.
PushIfValid(validReadings, peak, rev) ==
    IF peak.magnitude > PEAK_MAGNITUDE_THRESHOLD_DB(rev)
    THEN Append(validReadings, peak.frequency)
    ELSE validReadings

\* if (validReadings.length >= 3) in app.js; calibrate() of part_000 has no
\* failure branch.
CalibrationSucceeds(validReadings, rev) ==
    rev = REV_APP => Len(validReadings) >= MIN_VALID_READINGS

\* The baseline a successful calibrate() stores:
\* validReadings.reduce(...) / validReadings.length   (app.js)
\* totalFrequency / calibrationCycles                 (part_000)
Baseline(validReadings, totalFrequency, rev) ==
    IF rev = REV_APP
    THEN Frac(SumSeq(validReadings), Len(validReadings))
    ELSE Frac(totalFrequency, calibrationCycles(rev))

\* The callback of calibrate().then(...) after a success:
\* pingInterval = setInterval(playChirp, ...), and in app.js also
\* analysisInterval = setInterval(runDopplerAnalysis, 100); updateUI(true, "Active").
StartIntervals ==
    /\ TimerIds \ pingTimers # {}
    /\ pingInterval' = NewId(TimerIds, pingTimers)
    /\ pingTimers' = pingTimers \cup {pingInterval'}
    /\ IF revision = REV_APP
       THEN /\ TimerIds \ analysisTimers # {}
            /\ analysisInterval' = NewId(TimerIds, analysisTimers)
            /\ analysisTimers' = analysisTimers \cup {analysisInterval'}
       ELSE UNCHANGED <<analysisInterval, analysisTimers>>
    /\ updateUI(TRUE, STATUS_ACTIVE)

\* A settle delay of calibrate() ends in call c: the reading of cycle i is
\* taken from a frame of `peaks'.  Either the next cycle starts (a chirp is
\* played and the next delay armed), or this was the last cycle: calibrate()
\* returns and the then-callback of startSonar runs in the same task.
settleFires(c, peaks) ==
    /\ c.pc = "settle"
    /\ \E peak \in peaks :
        LET valid == PushIfValid(c.validReadings, peak, revision)
            total == IF revision = REV_OLD
                     THEN c.totalFrequency + peak.frequency
                     ELSE c.totalFrequency
            i     == c.i + 1
        IN  IF i < calibrationCycles(revision)
            THEN /\ calls' = With(c, [c EXCEPT !.i = i, !.validReadings = valid,
                                                !.totalFrequency = total])
                 /\ out' = Did(1, "", FALSE, peak)
                 /\ UNCHANGED <<audioContext, isSonarActive, baselineFrequency,
                                pingInterval, analysisInterval, visualizerFrame,
                                pingTimers, analysisTimers, frames, statusText,
                                buttonActive, ownBaseline>>
            ELSE IF CalibrationSucceeds(valid, revision)
            THEN /\ baselineFrequency' = Baseline(valid, total, revision)
                 /\ StartIntervals
                 /\ calls' = Without(c)
                 /\ ownBaseline' = c.own
                 /\ out' = Did(0, "", FALSE, peak)
                 /\ UNCHANGED <<audioContext, isSonarActive, visualizerFrame, frames>>
            ELSE /\ stopSonar
                 /\ calls' = Disown(Without(c))
                 /\ ownBaseline' = FALSE
                 /\ out' = Did(0, ALERT_CALIBRATION, FALSE, peak)
                 /\ UNCHANGED baselineFrequency
    /\ UNCHANGED <<probe, revision, room>>

\* playChirp(): chirpPlayer.play().  The chirp is counted in `out'.
playChirp == out' = Did(1, "", FALSE, NoPeak)

\* A tick of a live setInterval(playChirp, PING_INTERVAL_MS).
pingTick(t) ==
    /\ t \in pingTimers
    /\ playChirp
    /\ UNCHANGED <<probe, revision, room, audioContext, isSonarActive, baselineFrequency,
                   pingInterval, analysisInterval, visualizerFrame, pingTimers,
                   analysisTimers, frames, calls, statusText, buttonActive,
                   ownBaseline>>

\* runDopplerAnalysis with a memory: once motion is shown, a strong peak keeps
\* it shown whatever its shift.
runDopplerAnalysisSticky(peaks) ==
    IF ~isSonarActive \/ ~Calibrated(baselineFrequency, revision)
    THEN /\ out' = Did(0, "", FALSE, NoPeak)
         /\ UNCHANGED <<statusText, buttonActive>>
    ELSE \E peak \in peaks :
            /\ updateUI(TRUE, IF /\ statusText \in {STATUS_APPROACHING, STATUS_RECEDING}
                                  /\ peak.magnitude > PEAK_MAGNITUDE_THRESHOLD_DB(revision)
                               THEN statusText
                               ELSE Verdict(peak, baselineFrequency, revision))
            /\ out' = Did(0, "", TRUE, peak)

\* runDopplerAnalysis() (app.js), on a frame of `peaks'.
runDopplerAnalysis(peaks) ==
    IF ~isSonarActive \/ ~Calibrated(baselineFrequency, revision)
    THEN /\ out' = Did(0, "", FALSE, NoPeak)
         /\ UNCHANGED <<statusText, buttonActive>>
    ELSE \E peak \in peaks :
            /\ updateUI(TRUE, Verdict(peak, baselineFrequency, revision))
            /\ out' = Did(0, "", TRUE, peak)

\* A tick of a live setInterval(runDopplerAnalysis, 100).
analysisTick(t, peaks) ==
    /\ t \in analysisTimers
    /\ runDopplerAnalysis(peaks)
    /\ UNCHANGED <<probe, revision, room, audioContext, isSonarActive, baselineFrequency,
                   pingInterval, analysisInterval, visualizerFrame, pingTimers,
                   analysisTimers, frames, calls, ownBaseline>>

\* visualize() of app.js, run by the animation frame f: draws, and requests
\* the next frame while the sonar is active.
visualize(f) ==
    /\ IF isSonarActive
       THEN RequestFrame(frames \ {f})
       ELSE /\ frames' = frames \ {f}
            /\ UNCHANGED visualizerFrame
    /\ out' = Did(0, "", FALSE, NoPeak)
    /\ UNCHANGED <<statusText, buttonActive>>

\* analyseAudio() of part_000, run by the animation frame f: returns at once
\* when the sonar is not active; otherwise classifies the peak when a baseline
\* is set, draws, and requests the next frame.
analyseAudio(f, peaks) ==
    IF ~isSonarActive
    THEN /\ frames' = frames \ {f}
         /\ out' = Did(0, "", FALSE, NoPeak)
         /\ UNCHANGED <<visualizerFrame, statusText, buttonActive>>
    ELSE /\ RequestFrame(frames \ {f})
         /\ IF Calibrated(baselineFrequency, revision)
            THEN \E peak \in peaks :
                    /\ updateUI(TRUE, Verdict(peak, baselineFrequency, revision))
                    /\ out' = Did(0, "", TRUE, peak)
            ELSE /\ out' = Did(0, "", FALSE, NoPeak)
                 /\ UNCHANGED <<statusText, buttonActive>>

\* A pending animation frame fires.
frameFires(f, peaks) ==
    /\ f \in frames
    /\ IF revision = REV_APP
       THEN visualize(f)
       ELSE analyseAudio(f, peaks)
    /\ UNCHANGED <<probe, revision, room, audioContext, isSonarActive, baselineFrequency,
                   pingInterval, analysisInterval, pingTimers, analysisTimers,
                   calls, ownBaseline>>

\* Environment: the reflector enters or leaves the room.  The room is steady
\* while a calibration is running.
roomChanges ==
    /\ \A c \in InFlight : c.pc # "settle"
    /\ room' \in Rooms \ {room}
    /\ UNCHANGED <<probe, revision, audioContext, isSonarActive, baselineFrequency,
                   pingInterval, analysisInterval, visualizerFrame, pingTimers,
                   analysisTimers, frames, calls, statusText, buttonActive,
                   ownBaseline, out>>

\* The program with up to MaxCalls startSonar() calls in flight, in a room
\* that is steady during calibration.
Next ==
    \/ click(MaxCalls)
    \/ roomChanges
    \/ \E c \in InFlight : resumeResolves(c)
    \/ \E c \in InFlight : getUserMediaResolves(c, SessionPeaks[revision])
    \/ \E c \in InFlight : getUserMediaRejects(c)
    \/ \E c \in InFlight : timeoutFires(c)
    \/ \E c \in InFlight : settleFires(c, CalibrationPeaks(revision, room))
    \/ \E t \in TimerIds : pingTick(t)
    \/ \E t \in TimerIds : analysisTick(t, SessionPeaks[revision])
    \/ \E f \in FrameIds : frameFires(f, SessionPeaks[revision])

Spec == Init /\ [][Next]_vars

\* The signal path: the same program run for one session from page load (the
\* user starts the sonar once, and may stop it at any time), with any of the
\* wider choice of frames at every reading.
NextSignal ==
    \/ /\ audioContext = "none" \/ isSonarActive
       /\ click(1)
    \/ \E c \in InFlight : getUserMediaResolves(c, SignalAnalysisPeaks[revision])
    \/ \E c \in InFlight : getUserMediaRejects(c)
    \/ \E c \in InFlight : timeoutFires(c)
    \/ \E c \in InFlight : settleFires(c, DriftPeaks(c.validReadings, revision))
    \/ \E t \in TimerIds : pingTick(t)
    \/ \E t \in TimerIds : analysisTick(t, SignalAnalysisPeaks[revision])
    \/ \E f \in FrameIds : frameFires(f, SignalAnalysisPeaks[revision])

SpecSignal == Init /\ [][NextSignal]_vars

\* ------------------------------------------------------ pure functions ----

\* audioContext.sampleRate of the devices findPeakFrequency is tried on.
SampleRates == {40960, 44100, 48000}

\* The frames findPeakFrequency is tried on: a frame with an echo in the middle
\* of the band and one more bin of magnitude `loud', `offset' bins from the first
\* or the last bin of the scan; a frame of silence; and a frame too short to
\* reach the band.
ProbeShapes ==
    [kind : {"loud"}, edge : {"start", "end"}, offset : -2 .. 2, loud : {-10, -50}]
    \cup {[kind |-> "silent"], [kind |-> "short"]}

ProbeFrame(shape, rate, rev) ==
    LET first == Floor(CHIRP_START_HZ(rev) * fftSize, rate)
        last  == Ceil(CHIRP_END_HZ(rev) * fftSize, rate)
        mid   == (first + last) \div 2
    IN  IF shape.kind = "silent" THEN SilentFrame
        ELSE IF shape.kind = "short" THEN [i \in 0 .. 15 |-> -40]
        ELSE LET q == (IF shape.edge = "start" THEN first ELSE last) + shape.offset
             IN  [i \in 0 .. frequencyBinCount - 1 |->
                     IF i = q THEN shape.loud ELSE IF i = mid THEN -40 ELSE -100]

\* Math.max(-1, Math.min(1, x)) for x = n / SampleSteps, as a numerator
Clamp(n) ==
    LET least == IF n < SampleSteps THEN n ELSE SampleSteps
    IN  IF least > -SampleSteps THEN least ELSE -SampleSteps

\* (a / b) | 0 for b > 0 and a quotient inside the 32-bit range: truncation
\* towards zero
TruncateToInt(a, b) == IF a >= 0 THEN a \div b ELSE -((-a) \div b)

\* view.setInt16(pos, v, true): the value the 16 bits stored read back as
setInt16(v) == ((v + 32768) % 65536) - 32768

\* sample = (0.5 + sample < 0 ? sample * 32768 : sample * 32767) | 0
\* for the clamped sample n / SampleSteps.  The condition is
\* (0.5 + sample) < 0: + binds tighter than <.
Quantize(n) ==
    IF SampleSteps + 2 * n < 0
    THEN TruncateToInt(n * 32768, SampleSteps)
    ELSE TruncateToInt(n * 32767, SampleSteps)

\* The samples bufferToWave stores for one channel of samples
\* channel[k] / SampleSteps (the loop of bufferToWave; the header is left out).
bufferToWave(channel) ==
    [k \in DOMAIN channel |-> setInt16(Quantize(Clamp(channel[k])))]

\* The samples bufferToWave is tried on: from below -1 to above 1.
SampleRange == -(SampleSteps + 8) .. SampleSteps + 8

Probes ==
    [fn : {"findPeakFrequency"}, rate : SampleRates, shape : ProbeShapes,
     done : {FALSE}, result : {[frequency |-> ZERO, magnitude |-> 0]}]
    \cup [fn : {"bufferToWave"}, channel : {<<n>> : n \in SampleRange},
          done : {FALSE}, result : {<< >>}]

InitFunctions ==
    /\ PageLoaded
    /\ probe \in Probes

callFindPeakFrequency ==
    /\ probe.fn = "findPeakFrequency"
    /\ ~probe.done
    /\ probe' = [probe EXCEPT
                    !.done = TRUE,
                    !.result = findPeakAt(ProbeFrame(probe.shape, probe.rate, revision),
                                          probe.rate, fftSize, revision)]
    /\ UNCHANGED <<revision, room, audioContext, isSonarActive, baselineFrequency,
                   pingInterval, analysisInterval, visualizerFrame, pingTimers,
                   analysisTimers, frames, calls, statusText, buttonActive,
                   ownBaseline, out>>

callBufferToWave ==
    /\ probe.fn = "bufferToWave"
    /\ ~probe.done
    /\ probe' = [probe EXCEPT !.done = TRUE, !.result = bufferToWave(probe.channel)]
    /\ UNCHANGED <<revision, room, audioContext, isSonarActive, baselineFrequency,
                   pingInterval, analysisInterval, visualizerFrame, pingTimers,
                   analysisTimers, frames, calls, statusText, buttonActive,
                   ownBaseline, out>>

NextFunctions ==
    \/ callFindPeakFrequency
    \/ callBufferToWave

\* The pure functions of the program, each applied once to one input.
SpecFunctions == InitFunctions /\ [][NextFunctions]_vars

\* ------------------------------------------------------------ properties ----

\* The session is idle and the user has not started a new one: no
\* startSonar() call is waiting for the audio context or for the microphone.
\* (A call left over from a stopped session waits at its 500 ms timeout or at
\* a settle delay.)
IdleAndNotRestarted ==
    /\ ~isSonarActive
    /\ \A c \in InFlight : c.pc \notin {"resume", "getUserMedia"}

\* C1: once the session is idle, and until the user starts a new one, the
\* remaining steps of a calibration that was in flight (or whose 500 ms timeout
\* was pending) when stopSonar ran never write baselineFrequency.
C1_StoppedCalibrationWritesNoBaseline ==
    [][IdleAndNotRestarted => baselineFrequency' = baselineFrequency]_vars

\* C2: once stopSonar has returned, and until the user starts a new session,
\* no ping timer, no analysis timer and no animation frame is armed (so none
\* of them can fire), whatever the state of the session was when it stopped.
C2_NothingArmedAfterStop ==
    IdleAndNotRestarted =>
        /\ pingTimers = {}
        /\ analysisTimers = {}
        /\ frames = {}

\* C3: neither steady-state timer (ping, analysis) is running while a
\* calibrate() call is still in progress, i.e. waits at one of its settle delays.
C3_NoSteadyTimerDuringCalibration ==
    (\E c \in InFlight : c.pc = "settle") =>
        /\ pingTimers = {}
        /\ analysisTimers = {}

\* The phase of the session that a status text shows.
Phase(text) ==
    IF text = STATUS_IDLE THEN "Idle"
    ELSE IF text \in {STATUS_CALIBRATING, STATUS_DO_NOT_MOVE} THEN "Calibrating"
    ELSE "Active"

\* C4: the status moves only along Idle -> Calibrating -> Active,
\* Active -> Idle and Calibrating -> Idle; in particular it never becomes
\* Active directly from Idle.
C4_StatusTransitions ==
    [][\/ Phase(statusText') = Phase(statusText)
       \/ <<Phase(statusText), Phase(statusText')>> \in
             {<<"Idle", "Calibrating">>, <<"Calibrating", "Active">>,
              <<"Active", "Idle">>, <<"Calibrating", "Idle">>}]_vars

\* C5: after a calibrate() that failed (the failure has just been reported),
\* baselineFrequency is 0, also when an earlier session had calibrated.
C5_FailedCalibrationLeavesBaselineUnset ==
    out.alert = ALERT_CALIBRATION => baselineFrequency = ZERO

\* The call c takes the reading of its last calibration cycle in this step:
\* calibrate() returns and the call ends.
LastCycle(c) ==
    /\ c.pc = "settle"
    /\ c.i = calibrationCycles(revision) - 1
    /\ BagCardinality(calls') < BagCardinality(calls)

\* The valid readings of call c once the reading of this step is taken.
ValidReadings(c) == PushIfValid(c.validReadings, out'.peak, revision)

\* C6: a calibrate() in which at most half of the cycles gave a valid reading
\* fails: the failure is reported and no baseline is set.
C6_MajorityOfValidReadings ==
    [][\A c \in InFlight :
          LastCycle(c) /\ 2 * Len(ValidReadings(c)) <= calibrationCycles(revision)
              => /\ out'.alert = ALERT_CALIBRATION
                 /\ baselineFrequency' = baselineFrequency]_vars

\* C7: a calibrate() that succeeds sets baselineFrequency to the arithmetic
\* mean of the frequencies of exactly its valid readings.
C7_BaselineIsMeanOfValidReadings ==
    [][\A c \in InFlight :
          LastCycle(c) /\ out'.alert = ""
              => /\ ValidReadings(c) # << >>
                 /\ baselineFrequency' =
                        Frac(SumSeq(ValidReadings(c)), Len(ValidReadings(c)))]_vars

\* C8: a tick reports motion (Approaching or Receding) only in a running
\* session whose own calibration run set the baseline.
C8_MotionOnlyWhenCalibratedBySession ==
    out.classified /\ statusText \in {STATUS_APPROACHING, STATUS_RECEDING}
        => isSonarActive /\ ownBaseline

\* The shift of the peak the last task read: peak frequency - baseline.
Shift == MinusFrac(out.peak.frequency, baselineFrequency)

\* C9: a tick that classifies a peak reports Approaching iff magnitude >
\* PEAK_MAGNITUDE_THRESHOLD_DB and shift > MOTION_THRESHOLD_HZ, Receding iff
\* magnitude > PEAK_MAGNITUDE_THRESHOLD_DB and shift < -MOTION_THRESHOLD_HZ, and
\* no motion (Active) otherwise.
C9_Classification ==
    out.classified =>
        LET strong == out.peak.magnitude > PEAK_MAGNITUDE_THRESHOLD_DB(revision)
            up     == FracGt(Shift, MOTION_THRESHOLD_HZ(revision))
            down   == FracLt(Shift, -MOTION_THRESHOLD_HZ(revision))
        IN  /\ statusText = STATUS_APPROACHING <=> strong /\ up
            /\ statusText = STATUS_RECEDING <=> strong /\ down
            /\ statusText = STATUS_ACTIVE <=> ~(strong /\ (up \/ down))

\* A strong peak whose shift is exactly the motion threshold was classified
\* as no motion.
C9_ExactThresholdIsNoMotion ==
    /\ out.classified
    /\ out.peak.magnitude > PEAK_MAGNITUDE_THRESHOLD_DB(revision)
    /\ Shift = Frac(MOTION_THRESHOLD_HZ(revision), 1)
    /\ statusText = STATUS_ACTIVE

Waiting(pcs) ==
    BagCardinality([c \in {e \in InFlight : e.pc \in pcs} |-> calls[c]])

\* C11: right after a calibrate() has failed, nothing is left that would chirp
\* or calibrate on its own: no call waits at its 500 ms timeout or inside
\* calibrate(), and no ping timer is armed.  (Only a click starts a new call.)
C11_NothingChirpsAfterFailure ==
    out.alert = ALERT_CALIBRATION =>
        /\ Waiting({"timeout", "settle"}) = 0
        /\ pingTimers = {}

\* C12: at most one calibrate() call is in progress, so at most one
\* calibration cycle (chirp emitted, settle delay pending) is in flight.
C12_OneCalibrationAtATime ==
    Waiting({"settle"}) <= 1

\* C17: playChirp is invoked only while isSonarActive is true: a task that
\* played a chirp ran in an active session.
C17_NoChirpWhileIdle ==
    out.chirps > 0 => isSonarActive

\* C18: at most one ping interval and at most one analysis interval exist,
\* and pingInterval / analysisInterval hold their ids, so that one stopSonar
\* clears every live interval.
C18_NoTimerLeaked ==
    /\ pingTimers \subseteq {pingInterval}
    /\ analysisTimers \subseteq {analysisInterval}

\* C19: after every task the UI shows the active state (button 'Stop Sonar',
\* a status other than Idle) iff isSonarActive is true, and Idle iff it is
\* false.
C19_UIAgreesWithFlag ==
    /\ buttonActive <=> isSonarActive
    /\ statusText = STATUS_IDLE <=> ~isSonarActive
    /\ StatusClass = "status-idle" <=> ~isSonarActive

\* C15: classification is memoryless: the status a classifying tick shows is
\* the verdict of that tick's peak, the baseline and the thresholds, whatever
\* the status was before the tick.
C15_ClassificationIsMemoryless ==
    [][out'.classified =>
          statusText' = Verdict(out'.peak, baselineFrequency', revision)]_vars

\* A steady-state tick has shown motion towards the microphone.
C15_ApproachingShown ==
    /\ out.classified
    /\ statusText = STATUS_APPROACHING
    /\ calls = EmptyBag

\* C13: the peak findPeakFrequency reports is never a bin whose frequency is
\* outside [CHIRP_START_HZ, CHIRP_END_HZ], for every frame and bin width.
C13_PeakInsideBand ==
    probe.fn = "findPeakFrequency" /\ probe.done
                                   /\ probe.result.magnitude > NEG_INFINITY
        => /\ ~FracLt(probe.result.frequency, CHIRP_START_HZ(revision))
           /\ ~FracGt(probe.result.frequency, CHIRP_END_HZ(revision))

\* The value the claim gives for the sample n / SampleSteps: clamped, then
\* scaled by 32768 when negative and by 32767 otherwise, then truncated.
AsymmetricQuantize(n) ==
    IF Clamp(n) < 0
    THEN TruncateToInt(Clamp(n) * 32768, SampleSteps)
    ELSE TruncateToInt(Clamp(n) * 32767, SampleSteps)

\* C16: bufferToWave stores, for every sample, the clamped sample scaled by
\* 32768 if negative and by 32767 otherwise, truncated: a value in
\* [-32768, 32767].
C16_AsymmetricQuantization ==
    probe.fn = "bufferToWave" /\ probe.done =>
        \A k \in DOMAIN probe.channel :
            /\ probe.result[k] = AsymmetricQuantize(probe.channel[k])
            /\ probe.result[k] \in -32768 .. 32767

\* C14: every check downstream of findPeakFrequency rejects the sentinel
\* (magnitude -Infinity): a calibration cycle that reads it leaves what
\* calibrate() has gathered as it was, so that the outcome of the calibration
\* is the one of the other readings, and a tick that classifies it shows no
\* motion.
C14_SentinelRejectedDownstream ==
    [][out'.peak.magnitude = NEG_INFINITY =>
          /\ out'.classified => statusText' = STATUS_ACTIVE
          /\ \A c \in InFlight :
                c.pc = "settle" /\ calls' # calls =>
                    IF c.i + 1 < calibrationCycles(revision)
                    THEN calls' = With(c, [c EXCEPT !.i = c.i + 1])
                    ELSE \/ /\ out'.alert = ALERT_CALIBRATION
                            /\ baselineFrequency' = baselineFrequency
                         \/ baselineFrequency' =
                               Baseline(c.validReadings, c.totalFrequency, revision)]_vars

=============================================================================
